---- MODULE Spec2Model ----
(***************************************************************************)
(* The HelmChart controller of pkg/controllers/apps/helmchart/helmchart.go *)
(* as a state machine: the informer's add/update/delete callbacks, the     *)
(* rate limited workqueue the controller is built on, Run, the worker      *)
(* loops that call processNextWorkItem, and UpdateChartStatus with its     *)
(* retry on conflict against the API server and the lister.                *)
(*                                                                         *)
(* Strings are sequences of one-character strings, so that building a key  *)
(* (namespace + "/" + name) and splitting it again are computed.           *)
(***************************************************************************)
EXTENDS Integers, Sequences, FiniteSets, TLC

\* ---------------------------------------------------------------- bounds
\* Cap on the per-key failure count kept by the rate limiter.
MaxFailures == 2

\* Cap on the resourceVersion the API server's copy of the chart reaches
\* through other writers.
MaxRV == 3

\* --------------------------------------------------------------- values
Workers == {"w1", "w2"}

NoItem == <<"?">>

\* Identities of the HelmChart objects of the model: a namespaced one and one
\* whose name holds a "/" (its key cannot be split back into namespace and
\* name).
Idents ==
    { [ns |-> <<"n">>, name |-> <<"a">>],
      [ns |-> <<"n">>, name |-> <<"c", "/", "d">>] }

SpecValues == {1, 2}
StatusValues == {1, 2}

\* *appsapi.HelmChart values.
Charts ==
    [type : {"HelmChart"}, id : Idents, spec : SpecValues, status : StatusValues]

\* An object that is not a HelmChart.
OtherObj == [type |-> "Other"]

\* One version of each object, for the notifications in which Spec and Status
\* play no part.
BaseCharts == {c \in Charts : c.spec = 1 /\ c.status = 1}

\* cache.DeletedFinalStateUnknown values: a tombstone wrapping a HelmChart or
\* wrapping something else.
Tombstones ==
    [type : {"Tombstone"}, obj : BaseCharts \cup {OtherObj}]

\* Everything an informer callback may be handed as interface{}.
Payloads == BaseCharts \cup {OtherObj} \cup Tombstones

\* ------------------------------------------------------------- key codec
\* cache.MetaNamespaceKeyFunc: namespace/name, or the bare name when the
\* namespace is empty.
MetaNamespaceKeyFunc(chart) ==
    IF Len(chart.id.ns) > 0
    THEN chart.id.ns \o <<"/">> \o chart.id.name
    ELSE chart.id.name

SlashPositions(key) == {i \in 1..Len(key) : key[i] = "/"}

\* cache.SplitMetaNamespaceKey: one part is a bare name, two parts are
\* namespace and name, anything else is an error.
SplitMetaNamespaceKey(key) ==
    LET sl == SlashPositions(key) IN
    IF sl = {}
    THEN [ok |-> TRUE, ns |-> <<>>, name |-> key]
    ELSE IF Cardinality(sl) = 1
         THEN LET i == CHOOSE j \in sl : TRUE IN
              [ok |-> TRUE, ns |-> SubSeq(key, 1, i - 1),
               name |-> SubSeq(key, i + 1, Len(key))]
         ELSE [ok |-> FALSE, ns |-> <<>>, name |-> <<>>]

Keys == {MetaNamespaceKeyFunc(c) : c \in Charts}

\* obj.(string): the items of the workqueue are strings.
IsString(obj) == obj \in Seq(STRING)

\* ------------------------------------------------------------ workqueue
\* The queue built by workqueue.NewNamedRateLimitingQueue with
\* workqueue.DefaultControllerRateLimiter(): a FIFO of keys with the dirty
\* and processing sets, the delaying queue's waiting entries and the rate
\* limiter's per-key failure counts.
BaseDelayMs == 5
MaxDelayMs == 1000000

NewQueue ==
    [queue |-> <<>>, dirty |-> {}, processing |-> {}, shuttingDown |-> FALSE,
     waiting |-> {}, failures |-> [k \in Keys |-> 0]]

\* workqueue.Add: dropped when shutting down or already dirty; a key being
\* processed is only marked dirty; otherwise it is appended.
Add(q, k) ==
    IF q.shuttingDown \/ k \in q.dirty
    THEN q
    ELSE IF k \in q.processing
         THEN [q EXCEPT !.dirty = @ \cup {k}]
         ELSE [q EXCEPT !.dirty = @ \cup {k}, !.queue = Append(@, k)]

\* workqueue.Get when an item is available: pops the head, marks it
\* processing and clears its dirty mark.
Get(q) ==
    [q EXCEPT !.queue = Tail(@),
              !.processing = @ \cup {Head(q.queue)},
              !.dirty = @ \ {Head(q.queue)}]

\* workqueue.Done: ends the processing of k; a key marked dirty meanwhile is
\* appended to the queue.
Done(q, k) ==
    IF k \in q.dirty
    THEN [q EXCEPT !.processing = @ \ {k}, !.queue = Append(@, k)]
    ELSE [q EXCEPT !.processing = @ \ {k}]

\* workqueue.Forget: the rate limiter drops the failure count of k.
Forget(q, k) == [q EXCEPT !.failures[k] = 0]

RECURSIVE Pow2(_)
Pow2(n) == IF n = 0 THEN 1 ELSE 2 * Pow2(n - 1)

\* A backoff that does not grow with the failures of the key.
Backoff_Constant(q, k) == BaseDelayMs

\* ItemExponentialFailureRateLimiter.When: base * 2^failures, capped.
Backoff(q, k) ==
    LET d == BaseDelayMs * Pow2(q.failures[k]) IN
    IF d > MaxDelayMs THEN MaxDelayMs ELSE d

\* BucketRateLimiter.When: the wait for a token of the bucket (10 per second,
\* burst of 100) that all keys of the queue share: nothing while the burst
\* lasts, a wait once the re-adds of other keys have used it up.
BucketWaitMs == 20
BucketDelays == {0, BucketWaitMs}

\* MaxOfRateLimiter.When of DefaultControllerRateLimiter: the larger of the
\* key's backoff and the bucket's wait.
When(q, k, bucket) ==
    IF Backoff(q, k) >= bucket THEN Backoff(q, k) ELSE bucket

\* workqueue.AddRateLimited: AddAfter(k, When(k)); When counts one more
\* failure of k; the delaying queue keeps one waiting entry per key and drops
\* the request when shutting down.
AddRateLimited(q, k, bucket) ==
    LET d == When(q, k, bucket)
        n == IF q.failures[k] < MaxFailures THEN q.failures[k] + 1 ELSE MaxFailures
        q1 == [q EXCEPT !.failures[k] = n]
    IN IF q1.shuttingDown
       THEN q1
       ELSE IF d <= 0
            THEN Add(q1, k)
            ELSE [q1 EXCEPT !.waiting = @ \cup {k}]

\* workqueue.ShutDown: no further Add is accepted and the delaying queue's
\* loop stops.
ShutDown(q) == [q EXCEPT !.shuttingDown = TRUE]


\* ------------------------------------------------- UpdateChartStatus
\* The chart n/a as the API server stores it: whether it exists, its Spec,
\* its Status and its resourceVersion, which every write, delete and
\* re-creation advances.
FirstVersion == [exists |-> TRUE, spec |-> 1, status |-> 1, rv |-> 1]

\* A *appsapi.HelmChart of UpdateChartStatus: Spec stands for every field
\* that is not Status; rv is metadata.resourceVersion. NoObj is no object.
NoObj == [spec |-> 0, status |-> 0, rv |-> 0]

Object(st) ==
    IF st.exists THEN [spec |-> st.spec, status |-> st.status, rv |-> st.rv]
    ELSE NoObj

\* retry.DefaultRetry.Steps: the number of times RetryOnConflict calls the
\* closure at most.
RetrySteps == 5

\* chart.Status = *status (line 251).
SetStatus(obj, status) == [obj EXCEPT !.status = status]

\* HelmCharts(ns).UpdateStatus(ctx, chart, opts) (line 252) against the
\* server's copy st: the request may not get through; the chart may be gone;
\* a chart whose resourceVersion is not the stored one is refused with a
\* conflict; otherwise the Status sent is stored under a new resourceVersion
\* (the status subresource keeps the stored Spec).
UpdateStatus(st, chart, outage) ==
    IF outage THEN [err |-> "unavailable", store |-> st]
    ELSE IF ~st.exists THEN [err |-> "notfound", store |-> st]
    ELSE IF chart.rv # st.rv THEN [err |-> "conflict", store |-> st]
    ELSE [err |-> "nil",
          store |-> [st EXCEPT !.status = chart.status, !.rv = st.rv + 1]]

\* c.helmChartLister.HelmCharts(ns).Get(name) (line 258).
ListerGet(li) ==
    IF li.entry = NoObj
    THEN [err |-> "missing", obj |-> NoObj]
    ELSE [err |-> "nil", obj |-> li.entry]

\* A re-fetch that only takes the fresh resourceVersion into the old chart.
Refresh_VersionOnly(old, updated) == [old EXCEPT !.rv = updated.rv]

\* chart = updated.DeepCopy() (line 260): the chart of the next attempt.
Refresh(old, updated) == updated

\* A closure that returns the error of the last call it made.
ClosureResult_LastError(writeErr, getErr) ==
    IF getErr # "nil" THEN getErr ELSE writeErr

\* return err (line 264): the err in scope there is the one UpdateStatus
\* returned; the lister's error lives only inside the if statement.
ClosureResult(writeErr, getErr) == writeErr

\* A retry that takes every error for retriable.
Retriable_AnyError(err) == err # "nil"

\* retry.RetryOnConflict: errors.IsConflict decides what is retried.
Retriable(err) == err = "conflict"

\* A retry that reports its exhaustion as wait.ErrWaitTimeout.
Exhausted_ErrWaitTimeout(lastErr) == "timeout"

\* retry.OnError when the steps are used up: the last retriable error.
Exhausted(lastErr) == lastErr

\* retry.RetryOnConflict(retry.DefaultRetry, fn) after one call of fn that
\* returned err with steps calls left, this one included: whether fn is
\* called again, and what is returned if not.
RetryOnConflict(steps, err) ==
    IF err = "nil" THEN [again |-> FALSE, err |-> "nil"]
    ELSE IF Retriable(err)
         THEN IF steps > 1
              THEN [again |-> TRUE, err |-> err]
              ELSE [again |-> FALSE, err |-> Exhausted(err)]
         ELSE [again |-> FALSE, err |-> err]

\* No call of UpdateChartStatus has been made.
NoAttempt == [write |-> "none", get |-> "none", ret |-> "none", steps |-> 0,
              reported |-> 0, kept |-> TRUE]

NoCall ==
    [pc |-> "idle", arg |-> NoObj, arg0 |-> NoObj, argCached |-> FALSE,
     chart |-> "arg", copy |-> NoObj, status |-> 0, steps |-> 0, writes |-> 0,
     conflicts |-> 0, err |-> "none", reported |-> 0, sent |-> NoObj,
     fetched |-> NoObj, persisted |-> NoObj, last |-> NoAttempt]

\* ---------------------------------------------------------------- state
VARIABLES
    wq,           \* c.workqueue
    cacheSynced,  \* c.helmChartSynced()
    stopped,      \* stopCh is closed
    runPc,        \* where Run is
    crashed,      \* an unrecovered panic has ended the process
    pc,           \* where each worker goroutine is
    item,         \* the item each worker got from Get
    trace,        \* what processNextWorkItem has done for that item so far
    observe,      \* which history is being recorded: "none", "notif", "requeue"
                  \* or "backoff"
    lastNotif,    \* history: what the last informer callback did
    adds,         \* history: notification Adds of a key during its current claim
    owe,          \* history: the re-delivery owed to a key for coalesced Adds
    settle,       \* history: whether a key's last reconciliation settled it
    store,        \* the API server's copy of the chart n/a
    lister,       \* c.helmChartLister's entry for the chart n/a
    upd,          \* one call of UpdateChartStatus: its locals and what it did
    scen          \* history: the first reconciliations of each key

ctl == <<cacheSynced, stopped, runPc>>
hist == <<lastNotif, adds, owe, settle>>
ucs == <<store, lister, upd>>
ctrl == <<wq, cacheSynced, stopped, runPc, crashed, pc, item, trace, observe,
          lastNotif, adds, owe, settle, scen>>
vars == <<wq, cacheSynced, stopped, runPc, crashed, pc, item, trace, observe,
          lastNotif, adds, owe, settle, store, lister, upd, scen>>

NoTrace ==
    [forget |-> 0, ratelimited |-> 0, done |-> 0, lookup |-> 0, handler |-> 0,
     reported |-> 0, err |-> "nil", answer |-> "none", outcome |-> "none"]

NoNotif == [op |-> "none"]

\* Nothing has been reconciled yet: runs counts the reconciliations of the
\* key, asExpected tells that each of them called the Sync Handler and that
\* it returned error, error, success so far, requeues and forgets count the
\* calls of AddRateLimited and Forget, backoff and delay keep the key's
\* backoff and the delay applied at the failed calls (until the third call
\* has returned), redelivered tells that Get has returned the key again
\* after the second failure.
NoScenario ==
    [runs |-> 0, asExpected |-> TRUE, requeues |-> 0, backoff |-> <<>>,
     delay |-> <<>>, forgets |-> 0, redelivered |-> FALSE]

\* The state NewController returns: an empty queue, handlers registered, Run
\* not yet called.
InitWith(o) ==
    /\ wq = NewQueue
    /\ cacheSynced = FALSE
    /\ stopped = FALSE
    /\ runPc = "init"
    /\ crashed = FALSE
    /\ pc = [w \in Workers |-> "idle"]
    /\ item = [w \in Workers |-> NoItem]
    /\ trace = [w \in Workers |-> NoTrace]
    /\ observe = o
    /\ lastNotif = NoNotif
    /\ adds = [k \in Keys |-> [all |-> 0, live |-> 0]]
    /\ owe = [k \in Keys |-> "no"]
    /\ settle = [k \in Keys |-> "open"]
    /\ store = FirstVersion
    /\ lister = [entry |-> Object(FirstVersion), seen |-> FirstVersion.rv,
                 isArg |-> FALSE]
    /\ upd = NoCall
    /\ scen = [k \in Keys |-> NoScenario]

Init == InitWith("none")

\* -------------------------------------------------------------- history
\* The history variables record what happened; no action reads them to decide
\* what the program does.
UpTo2(n) == IF n >= 2 THEN 2 ELSE n

Times(ms, m) == Cardinality({i \in DOMAIN ms : ms[i] = m})

Range(ks) == {ks[i] : i \in DOMAIN ks}

\* A callback has called workqueue.Add for the keys ks.
NotifHistory(ks) ==
    IF observe = "requeue"
    THEN /\ adds' = [k \in Keys |->
                       IF k \in Range(ks) /\ k \in wq.processing
                       THEN [all |-> UpTo2(adds[k].all + 1),
                             live |-> IF wq.shuttingDown THEN adds[k].live
                                      ELSE UpTo2(adds[k].live + 1)]
                       ELSE adds[k]]
         /\ owe' = [k \in Keys |-> IF k \in Range(ks) THEN "no" ELSE owe[k]]
         /\ settle' = [k \in Keys |-> IF k \in Range(ks) THEN "open" ELSE settle[k]]
    ELSE UNCHANGED <<adds, owe, settle>>

\* The delaying queue has re-added k.
DelayHistory(k) ==
    /\ owe' = IF observe = "requeue" THEN [owe EXCEPT ![k] = "no"] ELSE owe
    /\ UNCHANGED <<lastNotif, adds, settle>>

\* Get has returned k to a worker.
GetHistory(k) ==
    IF observe = "requeue"
    THEN /\ adds' = [adds EXCEPT ![k] = [all |-> 0, live |-> 0]]
         /\ owe' = [owe EXCEPT ![k] = IF @ = "owed" THEN "paid" ELSE "no"]
         /\ settle' = [settle EXCEPT ![k] = IF @ = "settled" THEN "redelivered" ELSE "open"]
         /\ UNCHANGED lastNotif
    ELSE UNCHANGED hist

\* A worker has finished k with the deferred Done; success tells whether the
\* reconciliation ended with Forget.
DoneHistory(k, success) ==
    IF observe = "requeue"
    THEN /\ adds' = [adds EXCEPT ![k] = [all |-> 0, live |-> 0]]
         /\ owe' = [owe EXCEPT ![k] = IF adds[k].live >= 2 THEN "owed" ELSE "no"]
         /\ settle' = [settle EXCEPT ![k] =
                         IF success /\ adds[k].all = 0 THEN "settled" ELSE "open"]
         /\ UNCHANGED lastNotif
    ELSE UNCHANGED hist

\* The first reconciliations of a key are no longer followed: they were not
\* two errors of the Sync Handler and then a success.
OffScenario == [NoScenario EXCEPT !.asExpected = FALSE]

UpTo3(n) == IF n >= 3 THEN 3 ELSE n

Followed(k) == observe = "backoff" /\ scen[k].asExpected /\ scen[k].runs < 3

\* Get has returned k.
ScenGet(k) ==
    scen' = IF Followed(k) /\ scen[k].runs = 2
            THEN [scen EXCEPT ![k].redelivered = TRUE]
            ELSE scen

\* The closure of processNextWorkItem has run for k: r is what syncHandler
\* did, ms the queue methods called for its error, and bucket the wait of
\* the rate limiter's bucket if it was asked.
ScenSync(k, r, ms, bucket) ==
    LET s == scen[k]
        arl == Times(ms, "AddRateLimited")
        failed == [s EXCEPT !.runs = @ + 1,
                            !.requeues = UpTo3(@ + arl),
                            !.forgets = @ + Times(ms, "Forget"),
                            !.backoff = IF arl > 0 THEN Append(@, Backoff(wq, k))
                                        ELSE @,
                            !.delay = IF arl > 0 THEN Append(@, When(wq, k, bucket))
                                      ELSE @]
        succeeded == [NoScenario EXCEPT !.runs = s.runs + 1,
                                       !.requeues = UpTo3(s.requeues + arl),
                                       !.forgets = s.forgets + Times(ms, "Forget"),
                                       !.redelivered = s.redelivered]
    IN scen' =
         IF ~Followed(k) THEN scen
         ELSE IF r.handler = 0
              THEN [scen EXCEPT ![k] = OffScenario]
              ELSE IF r.err # "nil"
                   THEN [scen EXCEPT ![k] = IF s.runs < 2 THEN failed
                                            ELSE OffScenario]
                   ELSE [scen EXCEPT ![k] = IF s.runs = 2 THEN succeeded
                                            ELSE OffScenario]

\* The Sync Handler has panicked for k.
ScenPanic(k) ==
    scen' = IF Followed(k) THEN [scen EXCEPT ![k] = OffScenario] ELSE scen

\* ------------------------------------------------- informer callbacks
\* What a callback does: the keys it hands to workqueue.Add, in order, the
\* errors it hands to utilruntime.HandleError, and whether it panics.
Nothing == [adds |-> <<>>, reported |-> 0, panic |-> FALSE]
Panics == [adds |-> <<>>, reported |-> 0, panic |-> TRUE]
Reports == [adds |-> <<>>, reported |-> 1, panic |-> FALSE]

\* A nil *appsapi.HelmChart.
NilChart == [type |-> "nil"]

\* Controller.enqueue: the key of the chart is added to the workqueue; a nil
\* chart makes MetaNamespaceKeyFunc dereference nil.
enqueue(chart) ==
    IF chart.type = "HelmChart"
    THEN [adds |-> <<MetaNamespaceKeyFunc(chart)>>, reported |-> 0, panic |-> FALSE]
    ELSE Panics

\* Controller.addHelmChart: obj.(*appsapi.HelmChart) is an unchecked type
\* assertion.
addHelmChart(obj) ==
    IF obj.type # "HelmChart" THEN Panics ELSE enqueue(obj)

\* An updateHelmChart that compares the whole objects instead of their Spec.
updateHelmChart_ComparesObjects(old, cur) ==
    IF old.type # "HelmChart" \/ cur.type # "HelmChart"
    THEN Panics
    ELSE IF old = cur THEN Nothing ELSE enqueue(cur)

\* Controller.updateHelmChart: both assertions are unchecked; an update that
\* leaves Spec deeply equal is skipped.
updateHelmChart(old, cur) ==
    IF old.type # "HelmChart" \/ cur.type # "HelmChart"
    THEN Panics
    ELSE IF old.spec = cur.spec THEN Nothing ELSE enqueue(cur)

\* Controller.deleteHelmChart: a live HelmChart is enqueued; for a tombstone
\* the wrapped object is type-checked but its value is discarded, so chart
\* stays nil on that path.
deleteHelmChart(obj) ==
    IF obj.type = "HelmChart"
    THEN enqueue(obj)
    ELSE IF obj.type # "Tombstone"
         THEN Reports
         ELSE IF obj.obj.type # "HelmChart"
              THEN Reports
              ELSE enqueue(NilChart)

RECURSIVE AddAll(_, _)
AddAll(q, ks) == IF ks = <<>> THEN q ELSE AddAll(Add(q, Head(ks)), Tail(ks))

\* The HelmChart a payload is about: the chart itself or the chart a
\* tombstone wraps; NilChart when there is none.
Subject(obj) ==
    IF obj.type = "HelmChart" THEN obj
    ELSE IF obj.type = "Tombstone" /\ obj.obj.type = "HelmChart" THEN obj.obj
    ELSE NilChart

KeyOf(obj) == IF obj.type = "HelmChart" THEN MetaNamespaceKeyFunc(obj) ELSE NoItem

\* A callback runs on the informer's goroutine: its Adds reach the queue, and
\* a panic there is not recovered. form tells the shape of the payload.
Deliver(op, form, subject, r) ==
    /\ ~crashed
    /\ wq' = AddAll(wq, r.adds)
    /\ crashed' = r.panic
    /\ lastNotif' = IF observe = "notif"
                    THEN [op |-> op, form |-> form, key |-> KeyOf(subject),
                          adds |-> r.adds, reported |-> r.reported, panic |-> r.panic,
                          quiet |-> (wq' = wq)]
                    ELSE lastNotif
    /\ NotifHistory(r.adds)
    /\ UNCHANGED <<ctl, pc, item, trace, observe, ucs, scen>>

OnAdd(obj) ==
    Deliver("add", IF obj.type = "HelmChart" THEN "chart" ELSE "malformed",
            Subject(obj), addHelmChart(obj))

\* The shape of an update's payload: malformed, or two charts that are
\* identical, differ in Status only, or differ in Spec.
UpdateForm(old, cur) ==
    IF old.type # "HelmChart" \/ cur.type # "HelmChart" THEN "malformed"
    ELSE IF old.spec # cur.spec THEN "newSpec"
    ELSE IF old.status # cur.status THEN "statusOnly" ELSE "identical"

OnUpdate(old, cur) ==
    Deliver("update", UpdateForm(old, cur),
            IF UpdateForm(old, cur) = "malformed" THEN NilChart ELSE cur,
            updateHelmChart(old, cur))

DeleteForm(obj) ==
    IF obj.type = "HelmChart" THEN "chart"
    ELSE IF Subject(obj).type = "HelmChart" THEN "tombstone" ELSE "malformed"

OnDelete(obj) ==
    Deliver("delete", DeleteForm(obj), Subject(obj), deleteHelmChart(obj))

\* The pairs an update notification carries: two versions of one object, or
\* a payload of the wrong type on either side.
UpdatePairs ==
    {<<o, c>> \in (BaseCharts \cup {OtherObj}) \X (Charts \cup {OtherObj}) :
        (o.type = "HelmChart" /\ c.type = "HelmChart") => o.id = c.id}

Notification ==
    \/ \E obj \in BaseCharts \cup {OtherObj} : OnAdd(obj)
    \/ \E p \in UpdatePairs : OnUpdate(p[1], p[2])
    \/ \E obj \in Payloads : OnDelete(obj)

\* The delaying queue's loop: a waiting key whose delay has elapsed is added.
DelayFire(k) ==
    /\ ~crashed
    /\ k \in wq.waiting
    /\ ~wq.shuttingDown
    /\ wq' = Add([wq EXCEPT !.waiting = @ \ {k}], k)
    /\ DelayHistory(k)
    /\ UNCHANGED <<ctl, crashed, pc, item, trace, observe, ucs, scen>>

\* ------------------------------------------------------------------ Run
\* Run is called.
RunStart ==
    /\ ~crashed
    /\ runPc = "init"
    /\ runPc' = "waitSync"
    /\ UNCHANGED <<wq, cacheSynced, stopped, crashed, pc, item, trace, observe, ucs, scen, hist>>

\* A Run that launches the workers without waiting for the cache.
RunLaunch_NoSyncWait ==
    /\ ~crashed
    /\ runPc = "waitSync"
    /\ runPc' = "running"
    /\ pc' = [w \in Workers |-> "launched"]
    /\ UNCHANGED <<wq, cacheSynced, stopped, crashed, item, trace, observe, ucs, scen, hist>>

\* cache.WaitForCacheSync returned true: one goroutine per worker is
\* launched and Run blocks on stopCh.
RunLaunch ==
    /\ ~crashed
    /\ runPc = "waitSync"
    /\ cacheSynced
    /\ runPc' = "running"
    /\ pc' = [w \in Workers |-> "launched"]
    /\ UNCHANGED <<wq, cacheSynced, stopped, crashed, item, trace, observe, ucs, scen, hist>>

\* cache.WaitForCacheSync returned false because stopCh was closed: Run
\* returns, and its deferred ShutDown runs.
RunAbort ==
    /\ ~crashed
    /\ runPc = "waitSync"
    /\ stopped
    /\ runPc' = "returned"
    /\ wq' = ShutDown(wq)
    /\ UNCHANGED <<cacheSynced, stopped, crashed, pc, item, trace, observe, ucs, scen, hist>>

\* <-stopCh returned: Run returns, and its deferred ShutDown runs.
RunStop ==
    /\ ~crashed
    /\ runPc = "running"
    /\ stopped
    /\ runPc' = "returned"
    /\ wq' = ShutDown(wq)
    /\ UNCHANGED <<cacheSynced, stopped, crashed, pc, item, trace, observe, ucs, scen, hist>>

\* The informer finishes its initial list.
CacheSync ==
    /\ ~crashed
    /\ ~cacheSynced
    /\ cacheSynced' = TRUE
    /\ UNCHANGED <<wq, stopped, runPc, crashed, pc, item, trace, observe, ucs, scen, hist>>

\* stopCh is closed.
Stop ==
    /\ ~crashed
    /\ ~stopped
    /\ stopped' = TRUE
    /\ UNCHANGED <<wq, cacheSynced, runPc, crashed, pc, item, trace, observe, ucs, scen, hist>>

\* -------------------------------------------------------------- workers
\* wait.Until checks stopCh before each call of runWorker.
WorkerBegin(w) ==
    /\ ~crashed
    /\ pc[w] = "launched"
    /\ pc' = [pc EXCEPT ![w] = IF stopped THEN "exited" ELSE "get"]
    /\ UNCHANGED <<wq, ctl, crashed, item, trace, observe, ucs, scen, hist>>

\* processNextWorkItem, c.workqueue.Get(): blocks while the queue is empty
\* and not shutting down; on shutdown processNextWorkItem returns false and
\* runWorker returns to wait.Until.
WorkerGet(w) ==
    /\ ~crashed
    /\ pc[w] = "get"
    /\ IF Len(wq.queue) > 0
       THEN /\ wq' = Get(wq)
            /\ item' = [item EXCEPT ![w] = Head(wq.queue)]
            /\ trace' = [trace EXCEPT ![w] = NoTrace]
            /\ pc' = [pc EXCEPT ![w] = "sync"]
            /\ GetHistory(Head(wq.queue))
            /\ ScenGet(Head(wq.queue))
       ELSE /\ wq.shuttingDown
            /\ pc' = [pc EXCEPT ![w] = "launched"]
            /\ UNCHANGED <<wq, item, trace, hist, scen>>
    /\ UNCHANGED <<ctl, crashed, observe, ucs>>

LookupAnswers == {"found", "notfound", "error"}

HandlerAnswers == {"ok", "err", "panic"}

\* A syncHandler that returns the error of a key it cannot split.
syncHandler_MalformedKeyIsError(key, lookup, handler) ==
    LET sp == SplitMetaNamespaceKey(key) IN
    IF ~sp.ok
    THEN [err |-> "handler", lookup |-> 0, handler |-> 0, reported |-> 0,
          panic |-> FALSE]
    ELSE IF lookup = "notfound"
         THEN [err |-> "nil", lookup |-> 1, handler |-> 0, reported |-> 0, panic |-> FALSE]
         ELSE IF lookup = "error"
              THEN [err |-> "lookup", lookup |-> 1, handler |-> 0, reported |-> 0,
                    panic |-> FALSE]
              ELSE [err |-> IF handler = "err" THEN "handler" ELSE "nil",
                    lookup |-> 1, handler |-> 1, reported |-> 0,
                    panic |-> (handler = "panic")]

\* A syncHandler that treats not-found like any other lookup error.
syncHandler_NotFoundIsError(key, lookup, handler) ==
    LET sp == SplitMetaNamespaceKey(key) IN
    IF ~sp.ok
    THEN [err |-> "nil", lookup |-> 0, handler |-> 0, reported |-> 1, panic |-> FALSE]
    ELSE IF lookup \in {"notfound", "error"}
         THEN [err |-> "lookup", lookup |-> 1, handler |-> 0, reported |-> 0,
               panic |-> FALSE]
         ELSE [err |-> IF handler = "err" THEN "handler" ELSE "nil",
               lookup |-> 1, handler |-> 1, reported |-> 0,
               panic |-> (handler = "panic")]

\* Controller.syncHandler for a key, given what the lister answers and what
\* c.SyncHandler does when it is called.
syncHandler(key, lookup, handler) ==
    LET sp == SplitMetaNamespaceKey(key) IN
    IF ~sp.ok
    THEN [err |-> "nil", lookup |-> 0, handler |-> 0, reported |-> 1, panic |-> FALSE]
    ELSE IF lookup = "notfound"
         THEN [err |-> "nil", lookup |-> 1, handler |-> 0, reported |-> 0, panic |-> FALSE]
         ELSE IF lookup = "error"
              THEN [err |-> "lookup", lookup |-> 1, handler |-> 0, reported |-> 0,
                    panic |-> FALSE]
              ELSE [err |-> IF handler = "err" THEN "handler" ELSE "nil",
                    lookup |-> 1, handler |-> 1, reported |-> 0,
                    panic |-> (handler = "panic")]

\* The inputs one syncHandler call reads: the lister's answer for the key's
\* namespace and name, and the handler's behaviour on the object found.
SyncInputs(key) ==
    IF ~SplitMetaNamespaceKey(key).ok
    THEN {<<"none", "none">>}
    ELSE {<<"notfound", "none">>, <<"error", "none">>} \cup ({"found"} \X HandlerAnswers)

\* processNextWorkItem, lines 193-200: the queue methods called for the error
\* syncHandler returned.
Disposition_ForgetsAsWell(err) ==
    IF err # "nil" THEN <<"AddRateLimited", "Forget">> ELSE <<"Forget">>

Disposition(err) ==
    IF err # "nil" THEN <<"AddRateLimited">> ELSE <<"Forget">>

RECURSIVE Calls(_, _, _, _)
Calls(q, ms, k, bucket) ==
    IF ms = <<>> THEN q
    ELSE Calls(IF Head(ms) = "Forget" THEN Forget(q, k)
               ELSE AddRateLimited(q, k, bucket),
               Tail(ms), k, bucket)

\* The queue when the closure of processNextWorkItem has run its body for
\* key k: Done is deferred, so it has not been called yet.
AfterBody_DoneNotDeferred(q, k, err, bucket) ==
    Done(Calls(q, Disposition(err), k, bucket), k)

AfterBody(q, k, err, bucket) == Calls(q, Disposition(err), k, bucket)

\* defer c.workqueue.Done(obj): what runs when the closure returns or panics.
Deferred_Missing(q, k) == q

Deferred(q, k) == Done(q, k)

\* processNextWorkItem, lines 176-202: the type check of the item, the call
\* of syncHandler and the disposition of the item: AddRateLimited on an
\* error (bucket is what the rate limiter's bucket then answers), Forget
\* otherwise. A panic of the handler runs the deferred Done and
\* is not recovered.
WorkerSync(w) ==
    /\ ~crashed
    /\ pc[w] = "sync"
    /\ IF ~IsString(item[w])
       THEN /\ wq' = Forget(wq, item[w])
            /\ trace' = [trace EXCEPT ![w].forget = @ + 1, ![w].reported = @ + 1]
            /\ pc' = [pc EXCEPT ![w] = "done"]
            /\ UNCHANGED <<crashed, hist, scen>>
       ELSE \E in \in SyncInputs(item[w]), bucket \in BucketDelays :
              LET r == syncHandler(item[w], in[1], in[2]) IN
              /\ r.err # "nil" => wq.failures[item[w]] < MaxFailures
              /\ r.err = "nil" => bucket = 0
              /\ IF r.panic
                 THEN /\ wq' = Deferred(wq, item[w])
                      /\ crashed' = TRUE
                      /\ pc' = [pc EXCEPT ![w] = "panicked"]
                      /\ trace' = [trace EXCEPT ![w].lookup = @ + r.lookup,
                                                ![w].handler = @ + r.handler,
                                                ![w].answer = in[1],
                                                ![w].outcome = in[2],
                                                ![w].done = @ + 1]
                      /\ DoneHistory(item[w], FALSE)
                      /\ ScenPanic(item[w])
                 ELSE /\ wq' = AfterBody(wq, item[w], r.err, bucket)
                      /\ ScenSync(item[w], r, Disposition(r.err), bucket)
                      /\ trace' = [trace EXCEPT
                                     ![w].err = r.err,
                                     ![w].answer = in[1],
                                     ![w].outcome = in[2],
                                     ![w].lookup = @ + r.lookup,
                                     ![w].handler = @ + r.handler,
                                     ![w].reported = @ + r.reported,
                                     ![w].ratelimited =
                                         @ + Times(Disposition(r.err), "AddRateLimited"),
                                     ![w].forget = @ + Times(Disposition(r.err), "Forget")]
                      /\ pc' = [pc EXCEPT ![w] = "done"]
                      /\ UNCHANGED <<crashed, hist>>
    /\ UNCHANGED <<ctl, item, observe, ucs>>

\* processNextWorkItem, lines 205-210: what it returns for the closure's
\* error.
processNextWorkItemResult_StopsOnError(err) == err = "nil"

processNextWorkItemResult(err) == TRUE

\* processNextWorkItem, the deferred c.workqueue.Done(obj) and lines 205-210:
\* an error is handed to HandleError; on true runWorker calls
\* processNextWorkItem again.
WorkerDone(w) ==
    /\ ~crashed
    /\ pc[w] = "done"
    /\ wq' = Deferred(wq, item[w])
    /\ trace' = [trace EXCEPT ![w].done = @ + 1,
                              ![w].reported = @ + (IF trace[w].err # "nil" THEN 1 ELSE 0)]
    /\ pc' = [pc EXCEPT ![w] = IF processNextWorkItemResult(trace[w].err)
                               THEN "returned" ELSE "launched"]
    /\ DoneHistory(item[w], trace[w].err = "nil")
    /\ UNCHANGED <<ctl, crashed, item, observe, ucs, scen>>

\* runWorker: processNextWorkItem returned true, so it is called again.
WorkerLoop(w) ==
    /\ ~crashed
    /\ pc[w] = "returned"
    /\ pc' = [pc EXCEPT ![w] = "get"]
    /\ item' = [item EXCEPT ![w] = NoItem]
    /\ trace' = [trace EXCEPT ![w] = NoTrace]
    /\ UNCHANGED <<wq, ctl, crashed, observe, ucs, scen, hist>>

Worker(w) ==
    \/ WorkerBegin(w)
    \/ WorkerGet(w)
    \/ WorkerSync(w)
    \/ WorkerDone(w)
    \/ WorkerLoop(w)

\* ------------------------------------------ UpdateChartStatus, called
\* Another client of the API server updates the chart.
OtherWriter ==
    /\ store.exists
    /\ store.rv < MaxRV
    /\ \E sp \in SpecValues, st \in StatusValues :
         store' = [exists |-> TRUE, spec |-> sp, status |-> st, rv |-> store.rv + 1]
    /\ UNCHANGED <<lister, upd, ctrl>>

\* The chart is deleted on the API server.
ChartDeleted ==
    /\ store.exists
    /\ store.rv < MaxRV
    /\ store' = [store EXCEPT !.exists = FALSE, !.rv = store.rv + 1]
    /\ UNCHANGED <<lister, upd, ctrl>>

\* A chart of the same namespace and name is created again.
ChartRecreated ==
    /\ ~store.exists
    /\ store.rv < MaxRV
    /\ \E sp \in SpecValues, st \in StatusValues :
         store' = [exists |-> TRUE, spec |-> sp, status |-> st, rv |-> store.rv + 1]
    /\ UNCHANGED <<lister, upd, ctrl>>

\* The informer catches up with the API server: the lister's entry is
\* replaced by a new object, or removed.
ListerSync ==
    /\ lister.seen < store.rv
    /\ lister' = [entry |-> Object(store), seen |-> store.rv, isArg |-> FALSE]
    /\ UNCHANGED <<store, upd, ctrl>>

\* The Sync Handler calls UpdateChartStatus(chart, status) for the chart it
\* was handed: the very object syncHandler resolved from the lister (line
\* 230, passed on at line 240), or a copy the handler made of it.
UpdateChartStatusCall ==
    /\ upd.pc = "idle"
    /\ lister.entry # NoObj
    /\ \E cached \in BOOLEAN, status \in StatusValues :
         /\ upd' = [NoCall EXCEPT !.pc = "attempt",
                                  !.arg = lister.entry,
                                  !.arg0 = lister.entry,
                                  !.argCached = cached,
                                  !.status = status,
                                  !.steps = RetrySteps]
         /\ lister' = [lister EXCEPT !.isArg = cached]
    /\ UNCHANGED <<store, ctrl>>

\* The object the local variable chart points to.
Target(u) == IF u.chart = "arg" THEN u.arg ELSE u.copy

\* One call of the closure (lines 250-265) by RetryOnConflict: the status is
\* assigned to the object chart points to, the object is sent, and after an
\* error the lister is asked for the chart again; then RetryOnConflict
\* decides on the closure's result.
UpdateChartStatusAttempt ==
    /\ upd.pc = "attempt"
    /\ \E outage \in BOOLEAN :
         LET written == SetStatus(Target(upd), upd.status)
             u1 == IF upd.chart = "arg"
                   THEN [upd EXCEPT !.arg = written]
                   ELSE [upd EXCEPT !.copy = written]
             li1 == IF upd.chart = "arg" /\ lister.isArg
                    THEN [lister EXCEPT !.entry = written]
                    ELSE lister
             w == UpdateStatus(store, written, outage)
             g == IF w.err = "nil" THEN [err |-> "none", obj |-> NoObj]
                  ELSE ListerGet(li1)
             u2 == IF w.err = "nil" THEN [u1 EXCEPT !.persisted = Object(w.store)]
                   ELSE IF g.err = "nil"
                        THEN [u1 EXCEPT !.chart = "copy",
                                        !.copy = Refresh(written, g.obj),
                                        !.fetched = g.obj]
                        ELSE [u1 EXCEPT !.reported = @ + 1]
             ret == IF w.err = "nil" THEN "nil" ELSE ClosureResult(w.err, g.err)
             o == RetryOnConflict(upd.steps, ret)
         IN /\ store' = w.store
            /\ lister' = li1
            /\ upd' = [u2 EXCEPT
                         !.pc = IF o.again THEN "attempt" ELSE "returned",
                         !.steps = @ - 1,
                         !.writes = @ + 1,
                         !.conflicts = @ + (IF w.err = "conflict" THEN 1 ELSE 0),
                         !.err = IF o.again THEN "none" ELSE o.err,
                         !.sent = written,
                         !.last = [write |-> w.err, get |-> g.err, ret |-> ret,
                                   steps |-> upd.steps,
                                   reported |-> u2.reported - upd.reported,
                                   kept |-> (u2.chart = upd.chart
                                             /\ Target(u2) = written)]]
    /\ UNCHANGED ctrl

\* UpdateChartStatus and what goes on around it.
NextStatus ==
    \/ OtherWriter
    \/ ChartDeleted
    \/ ChartRecreated
    \/ ListerSync
    \/ UpdateChartStatusCall
    \/ UpdateChartStatusAttempt

Next ==
    \/ Notification
    \/ \E k \in Keys : DelayFire(k)
    \/ RunStart
    \/ RunLaunch
    \/ RunAbort
    \/ RunStop
    \/ CacheSync
    \/ Stop
    \/ \E w \in Workers : Worker(w)

\* The program, with no history recorded.
Spec == Init /\ [][Next]_vars

\* The program, recording what each informer callback did.
SpecNotify == InitWith("notif") /\ [][Next]_vars

\* The program, recording how keys are re-queued and re-delivered.
SpecRequeue == InitWith("requeue") /\ [][Next]_vars

\* What the Go scheduler and the delaying queue's timer guarantee: a step of
\* Run, of a worker goroutine or of the delaying queue that stays possible is
\* eventually taken. Notifications, the cache sync and the stop signal come
\* from outside and are not forced.
Fairness ==
    /\ WF_vars(RunStart)
    /\ WF_vars(RunLaunch)
    /\ WF_vars(RunAbort)
    /\ WF_vars(RunStop)
    /\ \A w \in Workers : WF_vars(Worker(w))
    /\ \A k \in Keys : WF_vars(DelayFire(k))

\* The program under fair scheduling.
SpecFair == Init /\ [][Next]_vars /\ Fairness

\* The program under fair scheduling, recording the first reconciliations
\* of each key.
SpecBackoff == InitWith("backoff") /\ [][Next]_vars /\ Fairness

\* One call of UpdateChartStatus, among other writers and a lagging cache.
SpecStatus == Init /\ [][NextStatus]_vars

\* =============================================================== claims
Holding(w) == pc[w] \in {"sync", "done"}

Count(k, seq) == Cardinality({i \in DOMAIN seq : seq[i] = k})

\* C1: no two workers are ever between Get returning a key and their Done
\* of it for the same key; a reconciliation of k has called Done before the
\* next Get returns k.
NoTwoWorkersHoldSameKey ==
    \A w1, w2 \in Workers :
        (w1 # w2 /\ Holding(w1) /\ Holding(w2)) => item[w1] # item[w2]

\* C1 witness: a key is re-added while a worker holds it, and another worker
\* sits in Get on an empty queue without being given it.
C1_HeldKeyWithheld ==
    \E w1, w2 \in Workers :
        /\ Holding(w1) /\ item[w1] \in wq.dirty
        /\ pc[w2] = "get" /\ wq.queue = <<>>

\* C3: for a claimed item, exactly one of Forget and AddRateLimited has been
\* called when the closure has run, and Done exactly once when
\* processNextWorkItem has returned.
ExactlyOneDispositionAndOneDone ==
    \A w \in Workers :
        /\ pc[w] = "sync" =>
             trace[w].forget + trace[w].ratelimited = 0 /\ trace[w].done = 0
        /\ pc[w] = "done" =>
             trace[w].forget + trace[w].ratelimited = 1 /\ trace[w].done = 0
        /\ pc[w] = "returned" =>
             trace[w].forget + trace[w].ratelimited = 1 /\ trace[w].done = 1

\* C3 witness: processNextWorkItem has returned for a malformed key
\* (Forgotten) in one worker and for a failed sync (AddRateLimited) in the
\* other.
C3_BothDispositionsReturned ==
    \E w1, w2 \in Workers :
        /\ pc[w1] = "returned" /\ ~SplitMetaNamespaceKey(item[w1]).ok
        /\ trace[w1].forget = 1
        /\ pc[w2] = "returned" /\ trace[w2].ratelimited = 1

\* C5: when the lister answers not-found for a claimed key, the Sync Handler
\* is not invoked, Forget is called and AddRateLimited is not.
NotFoundIsForgotten ==
    \A w \in Workers :
        trace[w].answer = "notfound" =>
            /\ trace[w].handler = 0
            /\ trace[w].ratelimited = 0
            /\ trace[w].forget = 1
            /\ trace[w].err = "nil"

\* C5 witness: processNextWorkItem has returned for a key whose lookup was
\* answered not-found.
C5_NotFoundReturned ==
    \E w \in Workers : pc[w] = "returned" /\ trace[w].answer = "notfound"

\* C6: when the lookup fails with another error or the Sync Handler returns
\* an error, AddRateLimited is called and Forget is not, the error is handed
\* to the error reporter, and processNextWorkItem returns true: the worker
\* goes on to the next Get.
TransientFailure(w) == trace[w].answer = "error" \/ trace[w].outcome = "err"

TransientFailureRequeuesAndContinues ==
    \A w \in Workers :
        TransientFailure(w) =>
            /\ trace[w].ratelimited = 1
            /\ trace[w].forget = 0
            /\ pc[w] \in {"done", "returned"}
            /\ trace[w].done = 1 =>
                 /\ trace[w].reported = 1
                 /\ pc[w] = "returned"
                 /\ ~crashed => ENABLED WorkerLoop(w)

\* C6 witness: one worker has returned from a failed lookup and the other
\* from a Sync Handler error.
C6_BothFailuresReturned ==
    \E w1, w2 \in Workers :
        /\ pc[w1] = "returned" /\ trace[w1].answer = "error"
        /\ pc[w2] = "returned" /\ trace[w2].outcome = "err"

\* C10: no worker leaves its idle state (so none calls Get) before the cache
\* has synchronized; if Run returns with the cache never synchronized, no
\* worker was started, whatever the queue holds.
NoWorkerBeforeCacheSync ==
    /\ (\E w \in Workers : pc[w] # "idle") => cacheSynced
    /\ (runPc = "returned" /\ ~cacheSynced) => \A w \in Workers : pc[w] = "idle"

\* C10 witness: Run has returned after a stop that came before the cache
\* synchronized, with a key pending in the queue.
C10_StoppedBeforeSync ==
    /\ runPc = "returned" /\ stopped /\ ~cacheSynced
    /\ Len(wq.queue) > 0
    /\ \A w \in Workers : pc[w] = "idle"

\* C2, as stated: when Add(k) was called two or more times by notifications
\* while a worker held k, that worker's Done leaves k queued exactly once
\* for re-delivery.
EveryCoalescedAddIsRedelivered ==
    [][\A w \in Workers :
          (pc[w] = "done" /\ pc'[w] # "done" /\ adds[item[w]].all >= 2)
              => Count(item[w], wq'.queue) = 1]_vars

\* C2, amended: when two or more of those Adds were called before the queue
\* was shut down, Done leaves k queued exactly once and held by nobody; once
\* Get has returned it, k is held by one worker and is neither queued nor
\* marked dirty, as long as no further Add or delayed re-add of k occurs.
CoalescedAddsRedeliverOnce ==
    \A k \in Keys :
        /\ owe[k] = "owed" =>
             /\ Count(k, wq.queue) = 1
             /\ k \notin wq.processing
             /\ \A w \in Workers : ~(Holding(w) /\ item[w] = k)
        /\ owe[k] = "paid" =>
             /\ Count(k, wq.queue) = 0
             /\ k \notin wq.dirty
             /\ Cardinality({w \in Workers : Holding(w) /\ item[w] = k}) = 1

\* C2 witness: the one re-delivery owed for coalesced Adds has been made.
C2_RedeliveredOnce ==
    \E k \in Keys : owe[k] = "paid"

\* C4: after a reconciliation of k ended with Forget and Done, Get does not
\* return k again unless a notification has enqueued k since that
\* reconciliation was claimed.
NoRedeliveryAfterSuccess ==
    \A k \in Keys : settle[k] # "redelivered"

\* C7: an update whose old and new Spec are equal enqueues nothing and
\* leaves the queue unchanged, whatever else differs; an update whose Specs
\* differ calls Add with exactly the key of the new object.
UpdateEnqueuesOnSpecChangeOnly ==
    lastNotif.op = "update" =>
        /\ lastNotif.form \in {"identical", "statusOnly"} =>
             lastNotif.adds = <<>> /\ lastNotif.quiet /\ ~lastNotif.panic
        /\ lastNotif.form = "newSpec" =>
             lastNotif.adds = <<lastNotif.key>> /\ ~lastNotif.panic

\* C7 witness: an update that changed Status only has been handled while a
\* key was pending in the queue.
C7_StatusOnlyUpdateHandled ==
    /\ lastNotif.op = "update" /\ lastNotif.form = "statusOnly"
    /\ Len(wq.queue) > 0

\* C8: every delete notification for a HelmChart, live or wrapped in a
\* tombstone, calls Add with the key of the deleted object.
DeleteAlwaysEnqueues ==
    (lastNotif.op = "delete" /\ lastNotif.form \in {"chart", "tombstone"}) =>
        lastNotif.adds = <<lastNotif.key>>

\* C9: a malformed payload of an add, update or delete notification is
\* reported, nothing is enqueued and nothing panics.
MalformedPayloadIsDropped ==
    (lastNotif.op # "none" /\ lastNotif.form = "malformed") =>
        /\ lastNotif.reported = 1
        /\ lastNotif.adds = <<>>
        /\ ~lastNotif.panic

\* C11: after the stop signal the queue is shut down; every worker that sits
\* in Get then eventually leaves its loop for good; and every worker that
\* holds a key then eventually finishes it with its disposition and Done.
ShutdownDrainsWorkers ==
    /\ stopped ~> wq.shuttingDown
    /\ \A w \in Workers : (stopped /\ pc[w] = "get") ~> (pc[w] = "exited")
    /\ \A w \in Workers : (stopped /\ Holding(w)) ~> (pc[w] = "returned")

\* The same, in the runs where no callback and no Sync Handler panics.
ShutdownDrainsWorkersUnlessCrashed ==
    /\ stopped ~> (crashed \/ wq.shuttingDown)
    /\ \A w \in Workers :
          (stopped /\ pc[w] = "get") ~> (crashed \/ pc[w] = "exited")
    /\ \A w \in Workers :
          (stopped /\ Holding(w)) ~> (crashed \/ pc[w] = "returned")

\* C12: Run returns only after the stop channel is closed, and at the moment
\* it has returned no worker is between Get and Done for any key.
RunWaitsForWorkers ==
    [][(runPc # "returned" /\ runPc' = "returned") =>
          /\ stopped'
          /\ \A w \in Workers : pc'[w] \notin {"sync", "done"}]_vars

\* C13: when UpdateChartStatus is handed the object the lister holds, that
\* object, and with it the lister's entry as long as it is that object, has
\* the Status it had before the call: every attempt, the first included,
\* writes the new status to a private copy only.
StatusUpdateLeavesCacheObjectAlone ==
    (upd.pc # "idle" /\ upd.argCached) =>
        /\ upd.arg = upd.arg0
        /\ lister.isArg => lister.entry = upd.arg0

\* C14: when a write of UpdateChartStatus succeeds (every write before it
\* was refused with a conflict), the call returns nil and the status stored
\* is the new one; after one or more conflicts the object sent is the copy
\* of the lister's entry fetched last with its Status replaced, and what is
\* stored has that copy's other fields.
ConflictRetryPersistsFreshCopy ==
    upd.last.write = "nil" =>
        /\ upd.pc = "returned" /\ upd.err = "nil"
        /\ upd.writes = upd.conflicts + 1
        /\ upd.persisted.status = upd.status
        /\ upd.conflicts >= 1 =>
             /\ upd.fetched # NoObj
             /\ upd.chart = "copy"
             /\ upd.sent = SetStatus(upd.fetched, upd.status)
             /\ upd.persisted.spec = upd.fetched.spec

\* C14 witness: a call has succeeded after two conflicts, with a copy whose
\* Spec is not the one of the object passed in and whose Status was not the
\* new one.
C14_SucceededAfterTwoConflicts ==
    /\ upd.last.write = "nil"
    /\ upd.conflicts = 2
    /\ upd.fetched.spec # upd.arg0.spec
    /\ upd.fetched.status # upd.status

\* C15: UpdateChartStatus never writes more than RetrySteps times; when
\* every one of RetrySteps writes was refused with a conflict, the call has
\* returned, and what it returned is that conflict error.
BoundedWriteAttempts ==
    /\ upd.writes <= RetrySteps
    /\ upd.pc = "attempt" => upd.writes < RetrySteps
    /\ upd.conflicts = RetrySteps =>
         /\ upd.pc = "returned"
         /\ upd.err = "conflict"
         /\ upd.last.ret = "conflict"

\* C15 witness: every write the retry budget allows was refused with a
\* conflict.
C15_BudgetExhausted ==
    upd.conflicts = RetrySteps /\ upd.writes = RetrySteps

\* C16: a panic of the Sync Handler for the key a worker holds ends neither
\* the process nor that worker: the worker goes on to release the key and
\* to call Get again, and the other worker keeps running.
HandlerPanicIsContained ==
    \A w \in Workers :
        trace[w].outcome = "panic" =>
            /\ ~crashed
            /\ pc[w] \in {"done", "returned"}

\* The first reconciliations of k were, so far, n calls of the Sync Handler
\* that returned error, error, success in that order.
Scenario(k, n) == scen[k].asExpected /\ scen[k].runs = n

\* The keys syncHandler can split: the ones the Sync Handler is called for.
HandledKeys == {k \in Keys : SplitMetaNamespaceKey(k).ok}

MalformedKeyIsDropped ==
    /\ \A w \in Workers :
          (pc[w] \in {"done", "returned"} /\ IsString(item[w])
             /\ ~SplitMetaNamespaceKey(item[w]).ok) =>
              /\ trace[w].reported = 1
              /\ trace[w].lookup = 0
              /\ trace[w].handler = 0
              /\ trace[w].ratelimited = 0
              /\ trace[w].forget = 1
              /\ trace[w].err = "nil"
              /\ pc[w] = "returned" => trace[w].done = 1
    /\ \A k \in Keys :
          ~SplitMetaNamespaceKey(k).ok =>
              k \notin wq.waiting /\ wq.failures[k] = 0

\* C18 witness: a worker has released a key it could not split, while the
\* other key waits in the delaying queue after a failure.
C18_MalformedKeyReleased ==
    \E w \in Workers :
        /\ pc[w] = "returned"
        /\ ~SplitMetaNamespaceKey(item[w]).ok
        /\ trace[w].done = 1
        /\ wq.waiting # {}

\* C19: when a write of UpdateChartStatus is refused with a conflict and the
\* lister then no longer has the chart, the lister's error is handed to the
\* error reporter and nothing more: the closure returns the conflict, chart
\* still points to the object just written, and the retry goes on if steps
\* are left or else returns the conflict; the lister's error is never what
\* UpdateChartStatus returns.
RefetchFailureOnlyReported ==
    /\ upd.err # "missing"
    /\ (upd.last.write = "conflict" /\ upd.last.get = "missing") =>
         /\ upd.last.ret = "conflict"
         /\ upd.last.reported = 1
         /\ upd.last.kept
         /\ IF upd.last.steps > 1
            THEN upd.pc = "attempt" /\ upd.err = "none"
            ELSE upd.pc = "returned" /\ upd.err = "conflict"

\* C19 witness: after a conflict the lister had lost the chart, and the
\* next attempt is due.
C19_RefetchFailedRetryGoesOn ==
    /\ upd.last.write = "conflict" /\ upd.last.get = "missing"
    /\ upd.pc = "attempt"

\* C20: a write that fails with an error other than a conflict ends the
\* call, which returns that error after as many writes as there were
\* conflicts plus one; another attempt is only ever due after a conflict.
OnlyConflictsAreRetried ==
    /\ upd.last.write \in {"notfound", "unavailable"} =>
         /\ upd.pc = "returned"
         /\ upd.err = upd.last.write
         /\ upd.writes = upd.conflicts + 1
    /\ (upd.pc = "attempt" /\ upd.writes > 0) =>
         /\ upd.last.write = "conflict"
         /\ upd.writes = upd.conflicts

\* C20 witness: after two conflicts the third write failed because the
\* chart was gone.
C20_OtherErrorAfterConflicts ==
    /\ upd.last.write = "notfound"
    /\ upd.conflicts = 2
    /\ upd.pc = "returned"

====
